---- MODULE Spec2Model ----
(***************************************************************************)
(* DirectorySizeCalculator (src/filesize.py): one calculator object over a *)
(* static directory tree, the main thread running get_size, and the worker *)
(* threads get_size starts.                                                *)
(*                                                                         *)
(* Sizes are integers (bytes).  compressed_size is a sum of products       *)
(* file_size * ratio with ratio in {0.5, 0.7, 0.8, 0.9, 1.0}; the model    *)
(* keeps it in tenths of a byte (compressed10 = 10 * compressed_size), so  *)
(* "compressed_size > max_size" reads compressed10 > 10 * max_size.        *)
(*                                                                         *)
(* An optional value (None or v) is the sequence <<>> or <<v>>.            *)
(*                                                                         *)
(* The augmented assignments of worker() (lines 154 and 158) are a read of *)
(* the shared cell followed by a write, with no lock: another thread may   *)
(* run between the two.  Each is two actions.                              *)
(*                                                                         *)
(* The tqdm progress bar (lines 139-142, 159, 168, 174) and the timing     *)
(* (lines 115, 176-177) are display only and are left out; the report is   *)
(* kept as the two figures it is given.                                    *)
(***************************************************************************)
EXTENDS Integers, Sequences, FiniteSets, TLC

\* ---- bounds of the model ----
MaxFiles == 2
MaxThreads == 2
MaxSize == 2
MaxCap == 2
MaxCalls == 2
DeepLen == 5

\* ---- program constants ----
Kilo == 1024

VARIABLES
    root,          \* what self.path is on disk: "dir", "file" or "missing"
    tree,          \* the entries under the root, in the order rglob lists them
    file_types,    \* self.file_types
    exclude,       \* self.exclude
    include_hidden_files, \* self.include_hidden_files
    sort_by,       \* self.sort_by: "none", "size" or "name"
    ctor_max_size, \* the max_size argument __init__ was given (it stores it nowhere)
    cache,         \* self.cache restricted to the key str(self.path): <<>> or <<size>>
    mpc,           \* position of the caller: "idle", "launch", "join", "returned", "raised"
    args,          \* arguments of the running get_size call
    files,         \* local files of get_size
    file_queue,    \* the Queue: entries not yet delivered
    size,          \* nonlocal size
    compressed10,  \* nonlocal compressed_size, in tenths
    started,       \* len(threads): workers started so far
    joined,        \* workers the join loop has passed
    pc,            \* position of each worker
    file_,         \* each worker's local file_ (<<>> when it holds none)
    regC,          \* value of compressed_size a worker has read at line 154
    regS,          \* value of size a worker has read at line 158
    ret,           \* value returned by the last get_size call (<<>> if none)
    report,        \* last report: <<>> or <<[num_files_processed, total_size]>>
    history,       \* one record per finished call: its arguments, its outcome
                   \* ("returned" after an accumulation, "cached" from the
                   \* cache, "raised") and the value returned
    popped,        \* per entry name: how often get_nowait delivered it in this call
    added,         \* per entry name: how often line 158 completed for it in this call
    late_pops      \* per worker: entries get_nowait delivered to it in this call
                   \* after some worker had taken the early return of line 157

vars == <<root, tree, file_types, exclude, include_hidden_files, sort_by, ctor_max_size,
          cache, mpc, args, files, file_queue, size, compressed10, started, joined,
          pc, file_, regC, regS, ret, report, history, popped, added, late_pops>>

Workers == 1..MaxThreads
Sizes == 1..MaxSize

\* Names of the entries, numbered in the order Path objects compare:
\* 1 ".env", 2 "a.txt", 3 "b.bin", 4 "c.jpg", 5 "lnk.txt", 6 "sub", 7 "sub/d.txt"
NameIds == 1..7

\* The entries a tree is drawn from.  kind: "file" a regular file directly under
\* the root, "hidden" a regular dot-file under the root, "link" a dangling
\* symlink under the root (listed by glob, stat() raises), "dir" a subdirectory,
\* "sub" a regular file inside that subdirectory.
Universe ==
    {[name |-> 1, ext |-> "", size |-> 1, kind |-> "hidden"]}
    \cup {[name |-> 2, ext |-> ".txt", size |-> s, kind |-> "file"] : s \in Sizes}
    \cup {[name |-> 3, ext |-> ".bin", size |-> s, kind |-> "file"] : s \in Sizes}
    \cup {[name |-> 4, ext |-> ".jpg", size |-> 1, kind |-> "file"]}
    \cup {[name |-> 5, ext |-> ".txt", size |-> 1, kind |-> "link"]}
    \cup {[name |-> 6, ext |-> "", size |-> 1, kind |-> "dir"]}
    \cup {[name |-> 7, ext |-> ".txt", size |-> 1, kind |-> "sub"]}

\* Sequences over S of length at most n
RECURSIVE SeqsUpTo(_, _)
SeqsUpTo(S, n) ==
    IF n = 0 THEN {<<>>}
    ELSE LET shorter == SeqsUpTo(S, n - 1)
         IN shorter \cup {Append(s, x) : s \in {t \in shorter : Len(t) = n - 1}, x \in S}

\* A directory listing: distinct names, and a file of the subdirectory only
\* after the subdirectory itself.
IsListing(s) ==
    /\ \A i, j \in DOMAIN s : i # j => s[i].name # s[j].name
    /\ \A j \in DOMAIN s : s[j].kind = "sub" => \E i \in 1..(j - 1) : s[i].kind = "dir"

Trees == {s \in SeqsUpTo(Universe, MaxFiles) : IsListing(s)}

Caps == {<<>>} \cup {<<c>> : c \in 0..MaxCap}
Units == {"BYTE"}

\* Constructor arguments: the defaults of __init__, and each argument set on
\* its own
Defaults ==
    [file_types |-> {}, exclude |-> {}, max_size |-> <<>>,
     include_hidden_files |-> FALSE, sort_by |-> "none"]

Configs ==
    {Defaults,
     [Defaults EXCEPT !.file_types = {".txt"}],
     [Defaults EXCEPT !.exclude = {".bin"}],
     [Defaults EXCEPT !.max_size = <<1>>],
     [Defaults EXCEPT !.include_hidden_files = TRUE],
     [Defaults EXCEPT !.sort_by = "size"],
     [Defaults EXCEPT !.sort_by = "name"]}

Zero == [n \in NameIds |-> 0]

\* ---- pure helpers ----

\* _get_compression_ratio, times ten
Ratio10(file_ext) ==
    CASE file_ext = ".txt" -> 5
      [] file_ext = ".csv" -> 7
      [] file_ext = ".jpg" -> 9
      [] file_ext = ".pdf" -> 8
      [] OTHER -> 10

\* file_size * compression_ratio of one entry, in tenths
Adjusted10(e) == e.size * Ratio10(e.ext)

\* _format_size: the value size10 / 10 bytes in the unit, as the fraction
\* num / den (den = 10 * the unit's divisor)
FormatSize(size10, unit) ==
    CASE unit = "BYTE" -> [num |-> size10, den |-> 10]
      [] unit = "KILOBYTE" -> [num |-> size10, den |-> 10 * Kilo]
      [] unit = "MEGABYTE" -> [num |-> size10, den |-> 10 * Kilo * Kilo]
      [] unit = "GIGABYTE" -> [num |-> size10, den |-> 10 * Kilo * Kilo * Kilo]

\* Path.stat() succeeds (a dangling symlink raises FileNotFoundError)
StatOK(e) == e.kind # "link"

\* Path.is_file()
IsFile(e) == e.kind \in {"file", "hidden", "sub"}

\* file_.name.startswith('.')
IsHidden(e) == e.kind = "hidden"

\* the entry is an immediate child of the root (what glob('*') lists)
IsTopLevel(e) == e.kind # "sub"

\* the two extension tests shared by _get_files and the top_level_only loop
PassesExt(e) ==
    /\ (file_types # {} => e.ext \in file_types)
    /\ (exclude # {} => e.ext \notin exclude)

\* list.sort(key=...): stable, ascending
RECURSIVE InsertSorted(_, _, _)
InsertSorted(s, e, key) ==
    IF s = <<>> THEN <<e>>
    ELSE IF key[e] < key[s[Len(s)]]
         THEN Append(InsertSorted(SubSeq(s, 1, Len(s) - 1), e, key), s[Len(s)])
         ELSE Append(s, e)

RECURSIVE SortedBy(_, _)
SortedBy(s, key) ==
    IF s = <<>> THEN <<>>
    ELSE InsertSorted(SortedBy(SubSeq(s, 1, Len(s) - 1), key), s[Len(s)], key)

SizeKey == [e \in Universe |-> e.size]
NameKey == [e \in Universe |-> e.name]

\* lines 43-55 of _get_files: the list before sorting
Listed ==
    IF root = "dir"
    THEN SelectSeq(tree, LAMBDA e : (include_hidden_files \/ ~IsHidden(e)) /\ PassesExt(e))
    ELSE IF root = "file" THEN tree ELSE <<>>

\* _get_files raises: the size key calls stat() on every listed path
GetFilesRaises == sort_by = "size" /\ \E i \in DOMAIN Listed : ~StatOK(Listed[i])

\* _get_files, when it returns
GetFiles ==
    CASE sort_by = "size" -> SortedBy(Listed, SizeKey)
      [] sort_by = "name" -> SortedBy(Listed, NameKey)
      [] OTHER -> Listed

\* lines 126-133: what the top_level_only loop puts on the queue
TopLevelFiles ==
    IF root = "dir"
    THEN SelectSeq(tree, LAMBDA e : IsTopLevel(e) /\ IsFile(e) /\ PassesExt(e))
    ELSE <<>>

\* a cap test that takes every number, 0 too, as a cap
TruthyNotNone(max_size) == max_size # <<>>

\* "if max_size": None and 0 are false
Truthy(max_size) == max_size # <<>> /\ max_size[1] # 0

\* the early return taken already when compressed_size has reached max_size
OverCapAtCap(max_size, c10) == Truthy(max_size) /\ c10 >= 10 * max_size[1]

\* line 155: the condition of the early return
OverCap(max_size, c10) == Truthy(max_size) /\ c10 > 10 * max_size[1]

\* The arithmetic sums over a list of entries: of the sizes, and of the
\* adjusted sizes in tenths.  An entry whose stat() fails has no size and
\* contributes nothing.
RECURSIVE SumSize(_)
SumSize(s) ==
    IF s = <<>> THEN 0
    ELSE (IF StatOK(s[1]) THEN s[1].size ELSE 0) + SumSize(Tail(s))

RECURSIVE SumAdjusted10(_)
SumAdjusted10(s) ==
    IF s = <<>> THEN 0
    ELSE (IF StatOK(s[1]) THEN Adjusted10(s[1]) ELSE 0) + SumAdjusted10(Tail(s))

\* ---- the initial state: a constructed calculator over some tree ----

\* line 34: the cache is empty; no call of get_size has been made
NoCallYet ==
    /\ cache = <<>>
    /\ mpc = "idle"
    /\ args = <<>>
    /\ files = <<>>
    /\ file_queue = <<>>
    /\ size = 0
    /\ compressed10 = 0
    /\ started = 0
    /\ joined = 0
    /\ pc = [w \in Workers |-> "none"]
    /\ file_ = [w \in Workers |-> <<>>]
    /\ regC = [w \in Workers |-> 0]
    /\ regS = [w \in Workers |-> 0]
    /\ ret = <<>>
    /\ report = <<>>
    /\ history = <<>>
    /\ popped = Zero
    /\ added = Zero
    /\ late_pops = [w \in Workers |-> 0]

Init ==
    /\ root \in {"dir", "file", "missing"}
    /\ tree \in Trees
    /\ CASE root = "dir" -> TRUE
         [] root = "file" -> Len(tree) = 1 /\ tree[1].kind = "file"
         [] OTHER -> tree = <<>>
    /\ \E c \in Configs :
        /\ file_types = c.file_types
        /\ exclude = c.exclude
        /\ include_hidden_files = c.include_hidden_files
        /\ sort_by = c.sort_by
        /\ ctor_max_size = c.max_size
    /\ NoCallYet

config == <<root, tree, file_types, exclude, include_hidden_files, sort_by, ctor_max_size>>
workerVars == <<pc, file_, regC, regS>>

\* ---- get_size, the caller's thread ----

\* a lookup that never finds the path in the cache
CacheNeverHit == FALSE

\* line 118: str(self.path) in self.cache
CacheHit == cache # <<>>

\* lines 115-142: the call up to the creation of the progress bar.  No worker
\* exists yet, so this runs alone.
GetSize(num_threads, unit, max_size, top_level_only) ==
    /\ mpc \in {"idle", "returned", "raised"}
    /\ Len(history) < MaxCalls
    /\ args' = [num_threads |-> num_threads, unit |-> unit,
                max_size |-> max_size, top_level_only |-> top_level_only]
    /\ pc' = [w \in Workers |-> "none"]
    /\ file_' = [w \in Workers |-> <<>>]
    /\ regC' = [w \in Workers |-> 0]
    /\ regS' = [w \in Workers |-> 0]
    /\ popped' = Zero
    /\ added' = Zero
    /\ late_pops' = [w \in Workers |-> 0]
    /\ started' = 0
    /\ joined' = 0
    /\ size' = 0
    /\ compressed10' = 0
    /\ IF GetFilesRaises
       THEN \* line 116 raises out of get_size
            /\ mpc' = "raised"
            /\ ret' = <<>>
            /\ files' = <<>>
            /\ file_queue' = <<>>
            /\ history' = Append(history, [args |-> args', outcome |-> "raised", ret |-> <<>>])
       ELSE IF CacheHit
       THEN \* lines 118-120: the cached size is returned
            /\ mpc' = "returned"
            /\ ret' = <<FormatSize(10 * cache[1], unit)>>
            /\ files' = GetFiles
            /\ file_queue' = <<>>
            /\ history' = Append(history, [args |-> args', outcome |-> "cached", ret |-> ret'])
       ELSE \* lines 122-142
            /\ mpc' = "launch"
            /\ ret' = <<>>
            /\ files' = GetFiles
            /\ file_queue' = IF top_level_only THEN TopLevelFiles ELSE GetFiles
            /\ history' = history
    /\ UNCHANGED <<config, cache, report>>

\* lines 162-165: one iteration of the loop that starts the threads
Launch ==
    /\ mpc = "launch"
    /\ IF started < args.num_threads
       THEN /\ started' = started + 1
            /\ pc' = [pc EXCEPT ![started + 1] = "pop"]
            /\ mpc' = mpc
       ELSE /\ mpc' = "join"
            /\ UNCHANGED <<started, pc>>
    /\ UNCHANGED <<config, cache, args, files, file_queue, size, compressed10, joined,
                   file_, regC, regS, ret, report, history, popped, added,
                   late_pops>>

Terminated(w) == pc[w] \in {"done", "breach", "dead"}

\* a join loop that does not wait for the thread to end
JoinWithoutWaiting ==
    /\ mpc = "join"
    /\ joined < started
    /\ joined' = joined + 1
    /\ UNCHANGED <<config, cache, mpc, args, files, file_queue, size, compressed10, started,
                   workerVars, ret, report, history, popped, added,
                   late_pops>>

\* lines 170-171: thread.join() returns once that thread has ended
Join ==
    /\ mpc = "join"
    /\ joined < started
    /\ Terminated(joined + 1)
    /\ joined' = joined + 1
    /\ UNCHANGED <<config, cache, mpc, args, files, file_queue, size, compressed10, started,
                   workerVars, ret, report, history, popped, added,
                   late_pops>>

\* the totals read while threads may still be running
FinishWithoutJoin ==
    /\ mpc = "join"
    /\ cache' = <<size>>
    /\ report' = <<[num_files_processed |-> Len(files), total_size |-> size]>>
    /\ ret' = <<FormatSize(compressed10, args.unit)>>
    /\ mpc' = "returned"
    /\ history' = Append(history, [args |-> args, outcome |-> "returned", ret |-> ret'])
    /\ UNCHANGED <<config, args, files, file_queue, size, compressed10, started, joined,
                   workerVars, popped, added,
                   late_pops>>

\* lines 173-187: cache write, report, return
Finish ==
    /\ mpc = "join"
    /\ joined = started
    /\ cache' = <<size>>
    /\ report' = <<[num_files_processed |-> Len(files), total_size |-> size]>>
    /\ ret' = <<FormatSize(compressed10, args.unit)>>
    /\ mpc' = "returned"
    /\ history' = Append(history, [args |-> args, outcome |-> "returned", ret |-> ret'])
    /\ UNCHANGED <<config, args, files, file_queue, size, compressed10, started, joined,
                   workerVars, popped, added,
                   late_pops>>

\* ---- worker(), one thread each ----

\* some worker has taken the early return of line 157
Breached == \E w \in Workers : pc[w] = "breach"

mainVars == <<cache, mpc, args, files, started, joined, ret, report, history>>

\* a pop that hands out the head of the queue and leaves it there
PopPeek(w) ==
    /\ pc[w] = "pop"
    /\ file_queue # <<>>
    /\ pc' = [pc EXCEPT ![w] = "stat"]
    /\ file_' = [file_ EXCEPT ![w] = <<Head(file_queue)>>]
    /\ file_queue' = file_queue
    /\ popped' = [popped EXCEPT ![Head(file_queue).name] = @ + 1]
    /\ late_pops' = IF Breached THEN [late_pops EXCEPT ![w] = @ + 1] ELSE late_pops
    /\ UNCHANGED <<config, mainVars, size, compressed10, regC, regS, added>>

\* lines 147-150: get_nowait delivers the head of the queue, or raises Empty
\* and the worker leaves its loop
Pop(w) ==
    /\ pc[w] = "pop"
    /\ IF file_queue = <<>>
       THEN /\ pc' = [pc EXCEPT ![w] = "done"]
            /\ UNCHANGED <<file_queue, file_, popped, late_pops>>
       ELSE /\ pc' = [pc EXCEPT ![w] = "stat"]
            /\ file_' = [file_ EXCEPT ![w] = <<Head(file_queue)>>]
            /\ file_queue' = Tail(file_queue)
            /\ popped' = [popped EXCEPT ![Head(file_queue).name] = @ + 1]
            /\ late_pops' = IF Breached THEN [late_pops EXCEPT ![w] = @ + 1] ELSE late_pops
    /\ UNCHANGED <<config, mainVars, size, compressed10, regC, regS, added>>

\* lines 151-153: file_.stat().st_size and the ratio; a failing stat() raises
\* out of worker() and the thread ends
Stat(w) ==
    /\ pc[w] = "stat"
    /\ IF StatOK(file_[w][1])
       THEN pc' = [pc EXCEPT ![w] = "readC"]
       ELSE pc' = [pc EXCEPT ![w] = "dead"]
    /\ UNCHANGED <<config, mainVars, file_queue, size, compressed10, file_, regC, regS,
                   popped, added,
                   late_pops>>

\* line 154, first half: load compressed_size
ReadCompressed(w) ==
    /\ pc[w] = "readC"
    /\ regC' = [regC EXCEPT ![w] = compressed10]
    /\ pc' = [pc EXCEPT ![w] = "writeC"]
    /\ UNCHANGED <<config, mainVars, file_queue, size, compressed10, file_, regS,
                   popped, added,
                   late_pops>>

\* line 154, second half: store the loaded value plus file_size * ratio
WriteCompressed(w) ==
    /\ pc[w] = "writeC"
    /\ compressed10' = regC[w] + Adjusted10(file_[w][1])
    /\ regC' = [regC EXCEPT ![w] = 0]
    /\ pc' = [pc EXCEPT ![w] = "check"]
    /\ UNCHANGED <<config, mainVars, file_queue, size, file_, regS, popped, added,
                   late_pops>>

\* lines 155-157: the worker returns when compressed_size is over max_size
CheckWith(w, max_size) ==
    /\ pc[w] = "check"
    /\ IF OverCap(max_size, compressed10)
       THEN pc' = [pc EXCEPT ![w] = "breach"]
       ELSE pc' = [pc EXCEPT ![w] = "readS"]
    /\ UNCHANGED <<config, mainVars, file_queue, size, compressed10, file_, regC, regS,
                   popped, added,
                   late_pops>>

Check(w) == CheckWith(w, args.max_size)

\* line 158, first half: load size
ReadSize(w) ==
    /\ pc[w] = "readS"
    /\ regS' = [regS EXCEPT ![w] = size]
    /\ pc' = [pc EXCEPT ![w] = "writeS"]
    /\ UNCHANGED <<config, mainVars, file_queue, size, compressed10, file_, regC,
                   popped, added,
                   late_pops>>

\* an update that adds the entry's size twice
WriteSizeTwice(w) ==
    /\ pc[w] = "writeS"
    /\ size' = regS[w] + 2 * file_[w][1].size
    /\ regS' = [regS EXCEPT ![w] = 0]
    /\ added' = [added EXCEPT ![file_[w][1].name] = @ + 1]
    /\ file_' = [file_ EXCEPT ![w] = <<>>]
    /\ pc' = [pc EXCEPT ![w] = "pop"]
    /\ UNCHANGED <<config, mainVars, file_queue, compressed10, regC, popped, late_pops>>

\* line 158, second half, and line 159: store the loaded value plus file_size,
\* then back to the top of the loop
WriteSize(w) ==
    /\ pc[w] = "writeS"
    /\ size' = regS[w] + file_[w][1].size
    /\ regS' = [regS EXCEPT ![w] = 0]
    /\ added' = [added EXCEPT ![file_[w][1].name] = @ + 1]
    /\ file_' = [file_ EXCEPT ![w] = <<>>]
    /\ pc' = [pc EXCEPT ![w] = "pop"]
    /\ UNCHANGED <<config, mainVars, file_queue, compressed10, regC, popped, late_pops>>

Worker(w) ==
    \/ Pop(w)
    \/ Stat(w)
    \/ ReadCompressed(w)
    \/ WriteCompressed(w)
    \/ Check(w)
    \/ ReadSize(w)
    \/ WriteSize(w)

Call ==
    \E num_threads \in 1..MaxThreads, unit \in Units, max_size \in Caps,
       top_level_only \in BOOLEAN :
        GetSize(num_threads, unit, max_size, top_level_only)

Next ==
    \/ Call
    \/ Launch
    \/ Join
    \/ Finish
    \/ \E w \in Workers : Worker(w)

Spec == Init /\ [][Next]_vars

\* Every started thread, and the caller, keeps being scheduled: the threads
\* are OS threads and none of their steps waits, except join.
Fairness ==
    /\ WF_vars(Launch)
    /\ WF_vars(Join)
    /\ WF_vars(Finish)
    /\ \A w \in Workers : WF_vars(Worker(w))

\* a calculator constructed with the default arguments (lines 17-19)
InitDefaults ==
    /\ Init
    /\ file_types = Defaults.file_types
    /\ exclude = Defaults.exclude
    /\ include_hidden_files = Defaults.include_hidden_files
    /\ sort_by = Defaults.sort_by
    /\ ctor_max_size = Defaults.max_size

FairSpec == InitDefaults /\ [][Next]_vars /\ Fairness

\* ---- a bigger directory ----

\* A directory of DeepLen readable, non-hidden entries which rglob lists in
\* ascending order of their names, and a calculator constructed with the
\* default arguments
DeepTrees ==
    {s \in SeqsUpTo({e \in Universe : e.kind \in {"file", "dir", "sub"}}, DeepLen) :
        /\ Len(s) = DeepLen
        /\ IsListing(s)
        /\ \A i \in 1..(DeepLen - 1) : s[i].name < s[i + 1].name}

InitDeep ==
    /\ root = "dir"
    /\ tree \in DeepTrees
    /\ file_types = Defaults.file_types
    /\ exclude = Defaults.exclude
    /\ include_hidden_files = Defaults.include_hidden_files
    /\ sort_by = Defaults.sort_by
    /\ ctor_max_size = Defaults.max_size
    /\ NoCallYet

SpecDeep == InitDeep /\ [][Next]_vars

\* ---- one worker, and a fresh calculator for each accumulation ----

\* __init__ again with the same arguments over the same tree: a new object,
\* its cache empty.  history keeps the calls of the earlier objects.
Renew ==
    /\ mpc \in {"returned", "raised"}
    /\ cache # <<>>
    /\ cache' = <<>>
    /\ mpc' = "idle"
    /\ UNCHANGED <<config, args, files, file_queue, size, compressed10, started, joined,
                   workerVars, ret, report, history, popped, added,
                   late_pops>>

CallOneWorker ==
    \E unit \in Units, max_size \in Caps, top_level_only \in BOOLEAN :
        GetSize(1, unit, max_size, top_level_only)

NextSeq ==
    \/ CallOneWorker
    \/ Launch
    \/ Join
    \/ Finish
    \/ \E w \in Workers : Worker(w)
    \/ Renew

SpecSeq == Init /\ [][NextSeq]_vars

\* ---- definitions the properties share ----

\* the entries get_size loaded into the queue in the running (or last) call
Queued == IF args.top_level_only THEN TopLevelFiles ELSE GetFiles

\* an accumulation is under way: the queue is loaded, get_size has not returned
Accumulating == mpc \in {"launch", "join"}

\* the last call ran an accumulation and has returned
Accumulated == mpc = "returned" /\ history[Len(history)].outcome = "returned"

AllReadable == \A i \in DOMAIN Queued : StatOK(Queued[i])

RECURSIVE SumCounts(_, _)
SumCounts(f, n) == IF n = 0 THEN 0 ELSE f[n] + SumCounts(f, n - 1)

\* number of entries whose size line 158 added to the raw total
NumAdded == SumCounts(added, Cardinality(NameIds))

\* ---- properties ----

NoCap == args.max_size = <<>>

\* C1: with no size cap, when every worker has finished the raw total equals
\* the arithmetic sum of the sizes of all queued entries, for every worker
\* count and every interleaving (stated for queues whose entries can all be
\* read).
C1_RawTotalIsSum ==
    (Accumulated /\ NoCap /\ AllReadable) => size = SumSize(Queued)

\* C2: with a size cap set, the adjusted total is at most the cap in every
\* state of get_size and in the state it returns from (stated for a cap
\* above zero).
C2_AdjustedWithinCap ==
    ((Accumulating \/ Accumulated) /\ Truthy(args.max_size))
        => compressed10 <= 10 * args.max_size[1]

\* C3: when get_size finishes, the adjusted total is at most the raw total,
\* and the two are equal when no queued entry has a ratio below 1.0.
C3_AdjustedAtMostRaw ==
    Accumulated =>
        /\ compressed10 <= 10 * size
        /\ (\A i \in DOMAIN Queued : Ratio10(Queued[i].ext) = 10) => compressed10 = 10 * size

\* C4: two get_size calls in a row on one calculator, same arguments, no cap,
\* same tree: the second call returns the value the first returned.
C4_SecondCallSameValue ==
    (/\ Len(history) = 2
     /\ history[1].outcome = "returned"
     /\ history[2].outcome = "cached"
     /\ history[1].args = history[2].args
     /\ history[1].args.max_size = <<>>)
        => history[2].ret = history[1].ret

\* C5: one worker, a fresh calculator per call, one entry sequence: for caps
\* c1 <= c2, the cap value 0 included, the adjusted total returned with cap c1
\* is not greater than the one returned with cap c2.
C5_CapMonotone ==
    \A i, j \in DOMAIN history :
        (/\ history[i].outcome = "returned"
         /\ history[j].outcome = "returned"
         /\ history[i].args.top_level_only = history[j].args.top_level_only
         /\ history[i].args.max_size # <<>>
         /\ history[j].args.max_size # <<>>
         /\ history[i].args.max_size[1] <= history[j].args.max_size[1])
            => history[i].ret[1].num <= history[j].ret[1].num

\* C6: a queued entry whose stat() fails is skipped by itself: it adds to
\* neither total, and every other queued entry is still counted exactly once
\* (stated with no cap, so that no worker stops for another reason).
C6_FailureSkipsOneEntry ==
    (Accumulated /\ NoCap) =>
        \A i \in DOMAIN Queued :
            added[Queued[i].name] = (IF StatOK(Queued[i]) THEN 1 ELSE 0)

\* C7: when the root path does not exist get_size fails before any worker is
\* launched: no worker is started, no cache entry is written, nothing is
\* returned.
C7_MissingRootFails ==
    root = "missing" =>
        /\ started = 0
        /\ cache = <<>>
        /\ ret = <<>>

\* The cap of the call is set and the adjusted sizes of all queued entries
\* sum to at most the cap.
CapCovers ==
    /\ args.max_size # <<>>
    /\ SumAdjusted10(Queued) <= 10 * args.max_size[1]

C8_Inv ==
    ((Accumulating \/ Accumulated) /\ CapCovers) =>
        /\ \A w \in Workers : pc[w] # "breach"
        /\ \A w \in Workers : pc[w] \in {"readS", "writeS"} => added[file_[w][1].name] = 0
        /\ Accumulated =>
            /\ \A i \in DOMAIN Queued :
                  StatOK(Queued[i]) => added[Queued[i].name] = popped[Queued[i].name]
            /\ (args.num_threads = 1 /\ AllReadable) =>
                  /\ size = SumSize(Queued)
                  /\ compressed10 = SumAdjusted10(Queued)
                  /\ \A i \in DOMAIN Queued : added[Queued[i].name] = 1

C8_Step ==
    \A w \in Workers :
        (Accumulating /\ CapCovers /\ Check(w)) => CheckWith(w, <<>>)

C9_ReportCountsAdded ==
    Accumulated => report[1].num_files_processed = NumAdded

\* C10: a cap breach ends get_size normally: the call does not raise, it
\* returns only after every worker it started has ended and been joined, the
\* cache holds the raw total and the report is written, and the value returned
\* is the adjusted total, which is at most the adjusted sum of all queued
\* entries (what the entries give with no cap).
C10_BreachReturnsNormally ==
    Breached =>
        /\ mpc \in {"launch", "join", "returned"}
        /\ mpc = "returned" =>
            /\ started = args.num_threads
            /\ joined = started
            /\ \A w \in 1..started : Terminated(w)
            /\ cache = <<size>>
            /\ report = <<[num_files_processed |-> Len(files), total_size |-> size]>>
            /\ ret = <<FormatSize(compressed10, args.unit)>>
            /\ history[Len(history)].outcome = "returned"
            /\ compressed10 <= SumAdjusted10(Queued)
            /\ size <= SumSize(Queued)

\* a call with two workers has returned after a breach that left an entry out
C10_Witness ==
    /\ Breached
    /\ mpc = "returned"
    /\ args.num_threads = 2
    /\ \E w \in Workers : pc[w] # "breach" /\ Terminated(w)
    /\ compressed10 < SumAdjusted10(Queued)

\* C11: after an accumulation the cache maps the root to the raw total of
\* that accumulation, and an entry once written is never changed or removed by
\* a later get_size call on the calculator, whatever its arguments.
C11_CacheKeepsRawTotal ==
    /\ [](Accumulated => cache = <<size>>)
    /\ [][cache # <<>> => cache' = cache]_vars

\* a second call with other arguments has returned and the entry written by
\* the first call, a raw total above zero, is still there
C11_Witness ==
    /\ Len(history) = 2
    /\ history[1].outcome = "returned"
    /\ history[2].outcome = "cached"
    /\ history[2].args.max_size # history[1].args.max_size
    /\ history[2].args.top_level_only # history[1].args.top_level_only
    /\ history[2].args.num_threads # history[1].args.num_threads
    /\ cache # <<>>
    /\ cache[1] > 0
    /\ history[2].ret = <<FormatSize(10 * cache[1], history[2].args.unit)>>

\* C12: a max_size given to the constructor limits a later get_size call that
\* passes no max_size of its own: the call stops accumulating at that cap
\* (stated for one worker over readable entries whose adjusted sizes sum to
\* more than the constructor's cap: some entry is then left out).
C12_ConstructorCapLimits ==
    (/\ Accumulated
     /\ args.max_size = <<>>
     /\ Truthy(ctor_max_size)
     /\ args.num_threads = 1
     /\ AllReadable
     /\ SumAdjusted10(Queued) > 10 * ctor_max_size[1])
        => (Breached /\ NumAdded < Len(Queued))

\* C13: once one worker has taken the early return on a cap breach, no worker
\* pops a further entry from the queue.
C13_BreachStopsWorkers ==
    \A w \in Workers : late_pops[w] = 0

\* C14: the updates of a shared total exclude each other: no two workers are
\* at once between the read of the same total and the write of its
\* incremented value.
C14_UpdatesExclusive ==
    \A v, w \in Workers :
        v # w => /\ ~(pc[v] = "writeC" /\ pc[w] = "writeC")
                 /\ ~(pc[v] = "writeS" /\ pc[w] = "writeS")

\* a worker that has been started and has not ended
Active(w) == pc[w] \notin {"none", "done", "breach", "dead"}

\* C15: get_size starts exactly num_threads workers; a started worker can
\* always take its next step (it never waits for the queue or for another
\* worker); each worker ends, and ends on the empty queue or on a cap breach;
\* and get_size returns.
C15_WorkersEndAndCallReturns ==
    /\ [](Accumulating => /\ started <= args.num_threads
                          /\ \A w \in Workers : pc[w] # "none" <=> w <= started)
    /\ [](Accumulated => started = args.num_threads)
    /\ [](\A w \in Workers : Active(w) => ENABLED Worker(w))
    /\ [](\A w \in Workers : Terminated(w) => pc[w] \in {"done", "breach"})
    /\ \A w \in Workers : Active(w) ~> Terminated(w)
    /\ Accumulating ~> mpc = "returned"

\* C16: the cache write, the report and the return value come after the join
\* of every launched worker: while workers may run none of the three is
\* written; the step that writes them is taken with all num_threads workers
\* started, ended and joined and writes the totals as they are then; and
\* from that step on, until the next call, no worker is running and neither
\* total changes.
C16_TotalsReadAfterJoin ==
    /\ [](Accumulating => cache = <<>> /\ report = <<>> /\ ret = <<>>)
    /\ [][(mpc = "join" /\ mpc' = "returned") =>
            /\ started = args.num_threads
            /\ joined = started
            /\ \A w \in Workers : ~Active(w)
            /\ cache' = <<size>>
            /\ report'[1].total_size = size
            /\ ret' = <<FormatSize(compressed10, args.unit)>>]_vars
    /\ [](mpc = "returned" => \A w \in Workers : ~Active(w))
    /\ [][(mpc = "returned" /\ history' = history) =>
            size' = size /\ compressed10' = compressed10]_vars

\* a call with two workers has returned with both entries added
C16_Witness ==
    /\ Accumulated
    /\ started = 2
    /\ joined = 2
    /\ NumAdded = 2
    /\ size >= 2
    /\ cache = <<size>>

\* number of deliveries the queue has made in this call
NumPopped == SumCounts(popped, Cardinality(NameIds))

\* C17: once loaded the queue only shrinks, by its head, and nothing is ever
\* put on it; every queued entry is delivered at most once, so two workers
\* never hold the same entry, and the entries still queued plus the entries
\* delivered are the entries loaded.
C17_QueueConsumeOnlyNoDuplicates ==
    /\ [][Accumulating =>
            \/ file_queue' = file_queue
            \/ file_queue # <<>> /\ file_queue' = Tail(file_queue)]_vars
    /\ [](\A n \in NameIds : popped[n] <= 1)
    /\ [](\A v, w \in Workers :
            (v # w /\ file_[v] # <<>> /\ file_[w] # <<>>) => file_[v] # file_[w])
    /\ [](Accumulating => Len(file_queue) + NumPopped = Len(Queued))

\* two workers each hold an entry of their own and the queue is drained
C17_Witness ==
    /\ Accumulating
    /\ started = 2
    /\ file_[1] # <<>>
    /\ file_[2] # <<>>
    /\ file_[1] # file_[2]
    /\ NumPopped = 2
    /\ file_queue = <<>>

\* sum of the sizes of the entries of q at the positions in S, up to position n
RECURSIVE SumSizeAt(_, _, _)
SumSizeAt(q, S, n) ==
    IF n = 0 THEN 0
    ELSE (IF n \in S THEN q[n].size ELSE 0) + SumSizeAt(q, S, n - 1)

\* C18: at every point of an accumulation, and after it, the raw total is the
\* sum of the sizes of a set of distinct queued entries, each of which line
\* 158 has added; it is never more than the sum over all queued entries and
\* no entry is added twice.
C18_RawTotalIsSubsetSum ==
    (Accumulating \/ Accumulated) =>
        /\ size <= SumSize(Queued)
        /\ \A n \in NameIds : added[n] <= 1
        /\ \E S \in SUBSET (DOMAIN Queued) :
            /\ \A i \in S : added[Queued[i].name] = 1 /\ StatOK(Queued[i])
            /\ size = SumSizeAt(Queued, S, Len(Queued))

\* two workers have both added an entry and one update was lost: the raw
\* total is the size of one entry only
C18_Witness ==
    /\ Accumulated
    /\ started = 2
    /\ NumAdded = 2
    /\ AllReadable
    /\ 0 < size
    /\ size < SumSize(Queued)

\* C19: once a worker has taken the early return of the cap test, every other
\* worker is delivered at most one more entry before it ends too (from which
\* the bound of num_threads entries added at or after the first breach
\* follows).
C19_OvershootBounded == \A w \in Workers : late_pops[w] <= 1

CapZero == args.max_size = <<0>>

C20_Inv ==
    ((Accumulating \/ Accumulated) /\ CapZero) =>
        /\ \A w \in Workers : pc[w] # "breach" /\ late_pops[w] = 0
        /\ Accumulated =>
            /\ \A i \in DOMAIN Queued :
                  StatOK(Queued[i]) => added[Queued[i].name] = popped[Queued[i].name]
            /\ AllReadable =>
                  /\ file_queue = <<>>
                  /\ \A i \in DOMAIN Queued : added[Queued[i].name] = 1
            /\ (args.num_threads = 1 /\ AllReadable) =>
                  /\ size = SumSize(Queued)
                  /\ compressed10 = SumAdjusted10(Queued)

C20_Step ==
    \A w \in Workers :
        (Accumulating /\ CapZero /\ Check(w)) =>
            /\ CheckWith(w, <<>>)
            /\ pc'[w] = "readS"

====
